---------------------------- MODULE Spec2Model ----------------------------
(***************************************************************************)
(* gpiolcd: HD44780 character LCD driven through GPIO pins (src/gpiolcd.c). *)
(*                                                                         *)
(* The model follows the program from the point where main() has parsed    *)
(* and validated its options: hd44780_prepare (open, per-pin configure and *)
(* set, RESET, backlight), atexit registration, the do_char loop over the  *)
(* input, and exit.  hd44780_command and hd44780_putc are translated       *)
(* branch by branch; every hd44780_output call is recorded together with   *)
(* the GPIO ioctl requests it issues.                                      *)
(***************************************************************************)
EXTENDS Integers, Naturals, Sequences, FiniteSets, TLC

VARIABLES
    pc,            \* position in main(): "start", "prepare", "reset", "atexit", "main", "exited"
    hd_fd,         \* state->hd_fd, -1 while no device is open
    hd_lines,      \* state->hd_lines
    hd_cols,       \* state->hd_cols
    hd_blink,      \* state->hd_blink
    hd_cursor,     \* state->hd_cursor
    hd_font,       \* state->hd_font
    hd_bl_on,      \* state->hd_bl_on
    hd_col,        \* state->hd_col
    hd_row,        \* state->hd_row
    pins,          \* state->pins[HD_PIN_COUNT]
    i,             \* loop index of hd44780_prepare
    esc,           \* static int esc of do_char
    handlers,      \* number of atexit registrations of hd44780_finish
    finish_calls,  \* number of times hd44780_finish has run
    val,           \* uint8_t val of hd44780_command, last value assigned
    ac,            \* DDRAM address counter of the controller
    writes,        \* hd44780_output calls of the last step: <<type, data>>
    ioctls,        \* GPIO ioctl requests of the last step: <<request, pin, value>>
    last,          \* the last step: [kind, arg, ch]
    failed,        \* position in ioctls of the request that failed in the last step, 0 if none
    lowered,       \* pin roles hd44780_prepare has configured as output and set low
    pre            \* cursor before the last step: [col, row]

vars == <<pc, hd_fd, hd_lines, hd_cols, hd_blink, hd_cursor, hd_font, hd_bl_on,
          hd_col, hd_row, pins, i, esc, handlers, finish_calls, val, ac,
          writes, ioctls, last, failed, lowered, pre>>

---------------------------------------------------------------------------
(* Program constants *)

CMD_RESET == 0
CMD_BKSP == 1
CMD_CLR == 2
CMD_NL == 3
CMD_CR == 4
CMD_HOME == 5
CMD_TAB == 6
CMD_FLASH == 7

HD_COMMAND == 0
HD_DATA == 1

HD_PIN_DAT0 == 0
HD_PIN_RS == 8
HD_PIN_RW == 9
HD_PIN_E == 10
HD_PIN_BL == 11
HD_PIN_COUNT == 12

HD_CMD_CLEAR == 1
HD_CMD_HOME == 2
HD_CMD_ENTRYMODE == 4
HD_ENTRY_INCR == 2
HD_CMD_DISPCTRL == 8
HD_DISP_ON == 4
HD_CURSOR_ON == 2
HD_BLINK_ON == 1
HD_CMD_MOVE == 16
HD_MOVE_CURSOR == 0
HD_MOVE_LEFT == 0
HD_CMD_SETMODE == 32
HD_MODE_8BIT_IF == 16
HD_MODE_2LINES == 8
HD_MODE_LARGE_FONT == 4
HD_CMD_SET_ADDR == 128

hd_ifwidth == 4
MaxCells == 80
BankOffset == 64
TabStop == 8
UnboundPin == -1
GPIO_PIN_OUTPUT == 2

(* Bounds of the model *)
MaxCols == 20
MaxColsHW == 3

---------------------------------------------------------------------------
(* 8-bit helpers *)

U8(n) == n % 256

Bit(n, k) == (n \div (2 ^ k)) % 2

\* a | b on 8-bit values
BitOr(a, b) ==
    LET bit(k) == IF Bit(a, k) = 1 \/ Bit(b, k) = 1 THEN 2 ^ k ELSE 0
    IN  bit(0) + bit(1) + bit(2) + bit(3) + bit(4) + bit(5) + bit(6) + bit(7)

\* (1 << k) & data
MaskBit(k, data) == IF Bit(data, k) = 1 THEN 2 ^ k ELSE 0

---------------------------------------------------------------------------
(* Pin-level transport: hd44780_strobe and hd44780_output *)

GpioSet(pin, value) == <<"GPIOSET", pin, value>>

GpioSetConfig(pin) == <<"GPIOSETCONFIG", pin, GPIO_PIN_OUTPUT>>

\* E high, then E low
hd44780_strobe ==
    << GpioSet(pins[HD_PIN_E], 1), GpioSet(pins[HD_PIN_E], 0) >>

\* the four data lines from bits shift..shift+3 of data
NibbleSets(data, shift) ==
    [k \in 1..4 |-> GpioSet(pins[HD_PIN_DAT0 + (k - 1)], MaskBit((k - 1) + shift, data))]

\* variant: the lower nibble is sent first
hd44780_output_low_first(type, data) ==
    << GpioSet(pins[HD_PIN_RW], 0),
       GpioSet(pins[HD_PIN_RS], IF type = HD_COMMAND THEN 0 ELSE 1) >>
    \o NibbleSets(U8(data), 0)
    \o hd44780_strobe
    \o NibbleSets(U8(data), 4)
    \o hd44780_strobe

\* the ioctl requests of one hd44780_output(state, type, data) call
hd44780_output(type, data) ==
    << GpioSet(pins[HD_PIN_RW], 0),
       GpioSet(pins[HD_PIN_RS], IF type = HD_COMMAND THEN 0 ELSE 1) >>
    \o NibbleSets(U8(data), 4)
    \o hd44780_strobe
    \o NibbleSets(U8(data), 0)
    \o hd44780_strobe

\* one recorded call of hd44780_output: the uint8_t data parameter truncates
Wr(type, data) == <<type, U8(data)>>

RECURSIVE OutputAll(_)
\* the ioctl requests of a sequence of hd44780_output calls
OutputAll(ws) ==
    IF ws = <<>> THEN <<>>
    ELSE hd44780_output(Head(ws)[1], Head(ws)[2]) \o OutputAll(Tail(ws))

---------------------------------------------------------------------------
(* The controller's DDRAM address counter: clear and home set it to 0,     *)
(* set-address loads it, a data write increments it, cursor-left           *)
(* decrements it.  The counter is 7 bits wide.                             *)

ACStep(a, w) ==
    IF w[1] = HD_DATA THEN (a + 1) % 128
    ELSE IF w[2] >= HD_CMD_SET_ADDR THEN w[2] - HD_CMD_SET_ADDR
    ELSE IF w[2] = HD_CMD_CLEAR THEN 0
    ELSE IF w[2] = HD_CMD_HOME \/ w[2] = HD_CMD_HOME + 1 THEN 0
    ELSE IF w[2] = HD_CMD_MOVE THEN (a + 127) % 128
    ELSE a

RECURSIVE ACRun(_, _)
ACRun(a, ws) == IF ws = <<>> THEN a ELSE ACRun(ACStep(a, Head(ws)), Tail(ws))

---------------------------------------------------------------------------
(* hd44780_calc_addr *)

\* variant: the bank offset is applied to rows 1 and 2
calc_addr_bank_rows_1_2(row, col) ==
    LET a0 == U8(col)
        a1 == IF row = 1 \/ row = 2 THEN U8(a0 + BankOffset) ELSE a0
        a2 == IF row = 2 \/ row = 3 THEN U8(a1 + hd_cols) ELSE a1
    IN  a2

hd44780_calc_addr(row, col) ==
    LET a0 == U8(col)
        a1 == IF row = 1 \/ row = 3 THEN U8(a0 + BankOffset) ELSE a0
        a2 == IF row = 2 \/ row = 3 THEN U8(a1 + hd_cols) ELSE a1
    IN  a2

---------------------------------------------------------------------------
(* hd44780_command, one operator per case.  Each yields the cursor after   *)
(* the command, the value left in its local val (0 when the case assigns   *)
(* none), and the hd44780_output calls made.                               *)

DispCtrlOn ==
    LET v0 == BitOr(HD_CMD_DISPCTRL, HD_DISP_ON)
        v1 == IF hd_cursor # 0 THEN BitOr(v0, HD_CURSOR_ON) ELSE v0
        v2 == IF hd_blink # 0 THEN BitOr(v1, HD_BLINK_ON) ELSE v1
    IN  v2

\* variant: the two-line bit is set for two lines only
FunctionSet_two_lines_only ==
    LET v0 == HD_CMD_SETMODE
        v1 == IF hd_ifwidth = 8 THEN BitOr(v0, HD_MODE_8BIT_IF) ELSE v0
        v2 == IF hd_lines = 2 THEN BitOr(v1, HD_MODE_2LINES) ELSE v1
        v3 == IF hd_font # 0 THEN BitOr(v2, HD_MODE_LARGE_FONT) ELSE v2
    IN  v3

FunctionSet ==
    LET v0 == HD_CMD_SETMODE
        v1 == IF hd_ifwidth = 8 THEN BitOr(v0, HD_MODE_8BIT_IF) ELSE v0
        v2 == IF hd_lines # 1 THEN BitOr(v1, HD_MODE_2LINES) ELSE v1
        v3 == IF hd_font # 0 THEN BitOr(v2, HD_MODE_LARGE_FONT) ELSE v2
    IN  v3

Result(col, row, v, wr) == [col |-> col, row |-> row, val |-> v, wr |-> wr]

CmdClr(pre_wr, v) ==
    Result(0, 0, v, pre_wr \o << Wr(HD_COMMAND, HD_CMD_CLEAR) >>)

CmdReset ==
    CmdClr(<< Wr(HD_COMMAND, FunctionSet),
              Wr(HD_COMMAND, FunctionSet),
              Wr(HD_COMMAND, FunctionSet),
              Wr(HD_COMMAND, HD_CMD_DISPCTRL),
              Wr(HD_COMMAND, DispCtrlOn),
              Wr(HD_COMMAND, BitOr(HD_CMD_ENTRYMODE, HD_ENTRY_INCR)) >>,
           BitOr(HD_CMD_ENTRYMODE, HD_ENTRY_INCR))

\* variant: the loop body switches the display on, then off
FlashWrites_ends_off ==
    << Wr(HD_COMMAND, DispCtrlOn), Wr(HD_COMMAND, HD_CMD_DISPCTRL),
       Wr(HD_COMMAND, DispCtrlOn), Wr(HD_COMMAND, HD_CMD_DISPCTRL) >>

FlashWrites ==
    << Wr(HD_COMMAND, HD_CMD_DISPCTRL), Wr(HD_COMMAND, DispCtrlOn),
       Wr(HD_COMMAND, HD_CMD_DISPCTRL), Wr(HD_COMMAND, DispCtrlOn) >>

CmdFlash == Result(hd_col, hd_row, DispCtrlOn, FlashWrites)

\* variant: the column test is >= 0
CmdBksp_ge ==
    IF hd_col >= 0
    THEN Result(hd_col - 1, hd_row, 0,
                << Wr(HD_COMMAND, BitOr(BitOr(HD_CMD_MOVE, HD_MOVE_CURSOR), HD_MOVE_LEFT)) >>)
    ELSE CmdFlash

CmdBksp ==
    IF hd_col > 0
    THEN Result(hd_col - 1, hd_row, 0,
                << Wr(HD_COMMAND, BitOr(BitOr(HD_CMD_MOVE, HD_MOVE_CURSOR), HD_MOVE_LEFT)) >>)
    ELSE CmdFlash

\* variant: the last row parks on the last cell
NlCursor_last_cell ==
    IF hd_row < hd_lines - 1
    THEN [row |-> hd_row + 1, col |-> 0]
    ELSE [row |-> hd_row, col |-> hd_cols - 1]

\* variant: the column is kept when the row advances
NlCursor_keep_col ==
    IF hd_row < hd_lines - 1
    THEN [row |-> hd_row + 1, col |-> hd_col]
    ELSE [row |-> hd_row, col |-> hd_cols]

\* variant: the row test is <=
NlCursor_le ==
    IF hd_row <= hd_lines - 1
    THEN [row |-> hd_row + 1, col |-> 0]
    ELSE [row |-> hd_row, col |-> hd_cols]

NlCursor ==
    IF hd_row < hd_lines - 1
    THEN [row |-> hd_row + 1, col |-> 0]
    ELSE [row |-> hd_row, col |-> hd_cols]

CmdNl ==
    LET c == NlCursor
        v == hd44780_calc_addr(c.row, c.col)
    IN  Result(c.col, c.row, v, << Wr(HD_COMMAND, BitOr(HD_CMD_SET_ADDR, v)) >>)

CmdCr ==
    LET v == hd44780_calc_addr(hd_row, 0)
    IN  Result(0, hd_row, v, << Wr(HD_COMMAND, BitOr(HD_CMD_SET_ADDR, v)) >>)

\* variant: HOME leaves the row
CmdHome_keep_row == Result(0, hd_row, 0, << Wr(HD_COMMAND, HD_CMD_HOME) >>)

CmdHome == Result(0, 0, 0, << Wr(HD_COMMAND, HD_CMD_HOME) >>)

\* the number of spaces TAB writes
TabCount ==
    LET n == TabStop - (hd_col % TabStop)
    IN  IF hd_col + n > hd_cols THEN hd_cols - hd_col ELSE n

\* TAB writes its spaces with hd44780_output and does not touch hd_col
CmdTab ==
    Result(hd_col, hd_row, 0,
           [k \in 1..(IF TabCount > 0 THEN TabCount ELSE 0) |-> Wr(HD_DATA, 32)])

\* variant: an unknown code is treated as CMD_FLASH
CmdUnknown_flash == CmdFlash

CmdUnknown == Result(hd_col, hd_row, 0, <<>>)

hd44780_command(cmd) ==
    CASE cmd = CMD_RESET -> CmdReset
      [] cmd = CMD_CLR   -> CmdClr(<<>>, 0)
      [] cmd = CMD_BKSP  -> CmdBksp
      [] cmd = CMD_NL    -> CmdNl
      [] cmd = CMD_CR    -> CmdCr
      [] cmd = CMD_HOME  -> CmdHome
      [] cmd = CMD_TAB   -> CmdTab
      [] cmd = CMD_FLASH -> CmdFlash
      [] OTHER           -> CmdUnknown

---------------------------------------------------------------------------
(* hd44780_putc *)

\* variant: the edge test is >
hd44780_putc_gt(c) ==
    IF hd_col > hd_cols
    THEN Result(hd_col, hd_row, 0, <<>>)
    ELSE Result(hd_col + 1, hd_row, 0, << Wr(HD_DATA, c) >>)

hd44780_putc(c) ==
    IF hd_col = hd_cols
    THEN Result(hd_col, hd_row, 0, <<>>)
    ELSE Result(hd_col + 1, hd_row, 0, << Wr(HD_DATA, c) >>)

---------------------------------------------------------------------------
(* Initial state: main() has parsed and validated the options              *)

Bools == {0, 1}

\* hd_lines is 1, 2 or 4; hd_cols > 0; hd_lines * hd_cols <= 80
Geometries ==
    { g \in [lines : {1, 2, 4}, cols : 1..MaxCols] : g.lines * g.cols <= MaxCells }

\* every pin unbound, then RS = 0, E = 2, DAT0 = 4 and DAT1..DAT3 contiguous;
\* -W and -L bind R/W and the backlight
PinMap(rw, bl) ==
    [p \in 0..(HD_PIN_COUNT - 1) |->
        IF p = HD_PIN_RS THEN 0
        ELSE IF p = HD_PIN_E THEN 2
        ELSE IF p >= HD_PIN_DAT0 /\ p < HD_PIN_DAT0 + hd_ifwidth THEN 4 + (p - HD_PIN_DAT0)
        ELSE IF p = HD_PIN_RW THEN rw
        ELSE IF p = HD_PIN_BL THEN bl
        ELSE UnboundPin]

NoStep == [kind |-> "none", arg |-> 0, ch |-> 0]

InitWith(geoms, flags, rws, bls) ==
    /\ pc = "start"
    /\ hd_fd = -1
    /\ \E g \in geoms : hd_lines = g.lines /\ hd_cols = g.cols
    /\ hd_blink \in flags
    /\ hd_cursor \in flags
    /\ hd_font \in flags
    /\ \E rw \in rws, bl \in bls : pins = PinMap(rw, bl)
    /\ hd_bl_on \in flags
    /\ (hd_bl_on # 0 => pins[HD_PIN_BL] # UnboundPin)
    /\ hd_col = 0
    /\ hd_row = 0
    /\ i = 0
    /\ esc = 0
    /\ handlers = 0
    /\ finish_calls = 0
    /\ val = 0
    /\ ac = 0
    /\ writes = <<>>
    /\ ioctls = <<>>
    /\ last = NoStep
    /\ failed = 0
    /\ lowered = {}
    /\ pre = [col |-> 0, row |-> 0]

Init == InitWith(Geometries, {0}, {UnboundPin}, {UnboundPin})

SmallGeometries == { g \in Geometries : g.cols <= MaxColsHW }

InitHW == InitWith(SmallGeometries, {0}, {UnboundPin}, {UnboundPin})

---------------------------------------------------------------------------
(* Actions *)

config == <<hd_lines, hd_cols, hd_blink, hd_cursor, hd_font, hd_bl_on, pins>>

\* exit(): every registered atexit handler runs once
Exit ==
    /\ pc' = "exited"
    /\ finish_calls' = finish_calls + handlers

Step(kind, arg, ch) ==
    /\ last' = [kind |-> kind, arg |-> arg, ch |-> ch]
    /\ pre' = [col |-> hd_col, row |-> hd_row]

\* The controller follows every hd44780_output call of a step.  The program
\* never reads the controller back, so a specification may leave it out
\* (hw = FALSE) and keep the address counter where it is.
Controller(hw, wr) == ac' = IF hw THEN ACRun(ac, wr) ELSE ac

\* variant: a failed GPIOSET of a controller write ends the process
SetErrorInOutput_exit == "exit"

\* hd44780_output and hd44780_strobe report a failed GPIOSET with debug() or
\* drop the result ((void)ioctl), and go on with the next request
SetErrorInOutput == "continue"

\* The driver state after a command or putc with result r, plus trailing
\* ioctls.  With io, any one of the GPIOSET requests of the step may fail.
Apply(r, more, hw, io) ==
    /\ hd_col' = r.col
    /\ hd_row' = r.row
    /\ val' = r.val
    /\ writes' = r.wr
    /\ ioctls' = OutputAll(r.wr) \o more
    /\ failed' \in (IF io THEN 0..Len(ioctls') ELSE {0})
    /\ Controller(hw, r.wr)

\* where the process is after the controller writes of a step
AfterOutput(next_pc) ==
    IF failed' > 0 /\ SetErrorInOutput = "exit"
    THEN Exit
    ELSE pc' = next_pc /\ UNCHANGED finish_calls

\* a step that leaves the driver state alone and issues the ioctl requests
\* reqs, the k-th of which fails (k = 0: none)
Idle(reqs, k) ==
    /\ writes' = <<>>
    /\ ioctls' = reqs
    /\ failed' = k
    /\ val' = 0
    /\ UNCHANGED <<hd_col, hd_row, ac>>

PrepareOpen ==
    /\ pc = "start"
    /\ hd_fd' = 3
    /\ pc' = "prepare"
    /\ i' = 0
    /\ Idle(<<>>, 0)
    /\ Step("open", 0, 0)
    /\ UNCHANGED <<config, esc, handlers, finish_calls, lowered>>

PrepareOpenFail ==
    /\ pc = "start"
    /\ hd_fd' = -1
    /\ Exit
    /\ Idle(<<>>, 0)
    /\ Step("open", 0, 0)
    /\ UNCHANGED <<config, i, esc, handlers, lowered>>

PreparePinSkip ==
    /\ pc = "prepare"
    /\ i < HD_PIN_COUNT
    /\ pins[i] = UnboundPin
    /\ i' = i + 1
    /\ Idle(<<>>, 0)
    /\ Step("pin", i, 0)
    /\ UNCHANGED <<pc, hd_fd, config, esc, handlers, finish_calls, lowered>>

\* variant: the pin is configured and not driven
PinRequests_config_only(pin) == << GpioSetConfig(pin) >>

\* the two requests of the pin loop for one bound pin
PinRequests(pin) == << GpioSetConfig(pin), GpioSet(pin, 0) >>

PreparePin ==
    /\ pc = "prepare"
    /\ i < HD_PIN_COUNT
    /\ pins[i] # UnboundPin
    /\ i' = i + 1
    /\ Idle(PinRequests(pins[i]), 0)
    /\ lowered' = lowered \cup {i}
    /\ Step("pin", i, 0)
    /\ UNCHANGED <<pc, hd_fd, config, esc, handlers, finish_calls>>

PreparePinConfigFail ==
    /\ pc = "prepare"
    /\ i < HD_PIN_COUNT
    /\ pins[i] # UnboundPin
    /\ Idle(<< GpioSetConfig(pins[i]) >>, 1)
    /\ Exit
    /\ Step("pin", i, 0)
    /\ UNCHANGED <<hd_fd, config, i, esc, handlers, lowered>>

PreparePinSetFail ==
    /\ pc = "prepare"
    /\ i < HD_PIN_COUNT
    /\ pins[i] # UnboundPin
    /\ Idle(PinRequests(pins[i]), 2)
    /\ Exit
    /\ Step("pin", i, 0)
    /\ UNCHANGED <<hd_fd, config, i, esc, handlers, lowered>>

PrepareReset(hw, io) ==
    /\ pc = "prepare"
    /\ i = HD_PIN_COUNT
    /\ Apply(hd44780_command(CMD_RESET),
             IF hd_bl_on # 0 THEN << GpioSet(pins[HD_PIN_BL], 1) >> ELSE <<>>,
             hw, io)
    /\ AfterOutput("atexit")
    /\ Step("command", CMD_RESET, 0)
    /\ UNCHANGED <<hd_fd, config, i, esc, handlers, lowered>>

RegisterFinish ==
    /\ pc = "atexit"
    /\ handlers' = handlers + 1
    /\ pc' = "main"
    /\ Idle(<<>>, 0)
    /\ Step("atexit", 0, 0)
    /\ UNCHANGED <<hd_fd, config, i, esc, finish_calls, lowered>>

Command(cmd, ch, hw, io) ==
    /\ Apply(hd44780_command(cmd), <<>>, hw, io)
    /\ Step("command", cmd, ch)

Putc(c, hw, io) ==
    /\ Apply(hd44780_putc(c), <<>>, hw, io)
    /\ Step("putc", c, c)

Ignore(ch) ==
    /\ Idle(<<>>, 0)
    /\ Step("ignored", 0, ch)

IsPrintable(ch) == ch >= 32 /\ ch <= 126

InputChars == {7, 8, 9, 10, 11, 12, 13, 27, 65, 72, 82, 92}

DoChar(ch, hw, io) ==
    /\ pc = "main"
    /\ IF esc # 0
       THEN /\ esc' = 0
            /\ CASE ch = 82 -> Command(CMD_RESET, ch, hw, io)
                 [] ch = 72 -> Command(CMD_HOME, ch, hw, io)
                 [] OTHER   -> Ignore(ch)
       ELSE IF ch = 27
       THEN /\ esc' = 1
            /\ Idle(<<>>, 0)
            /\ Step("esc", 0, ch)
       ELSE /\ esc' = esc
            /\ CASE ch = 10 -> Command(CMD_NL, ch, hw, io)
                 [] ch = 13 -> Command(CMD_CR, ch, hw, io)
                 [] ch = 9  -> Command(CMD_TAB, ch, hw, io)
                 [] ch = 7  -> Command(CMD_FLASH, ch, hw, io)
                 [] ch = 8  -> Command(CMD_BKSP, ch, hw, io)
                 [] ch = 12 -> Command(CMD_CLR, ch, hw, io)
                 [] OTHER   -> IF IsPrintable(ch) THEN Putc(ch, hw, io) ELSE Ignore(ch)
    /\ AfterOutput(pc)
    /\ UNCHANGED <<hd_fd, config, i, handlers, lowered>>

EndOfInput ==
    /\ pc = "main"
    /\ Exit
    /\ Idle(<<>>, 0)
    /\ Step("exit", 0, 0)
    /\ UNCHANGED <<hd_fd, config, i, esc, handlers, lowered>>

\* the program alone
Next ==
    \/ PrepareOpen
    \/ PrepareOpenFail
    \/ PreparePinSkip
    \/ PreparePin
    \/ PreparePinConfigFail
    \/ PreparePinSetFail
    \/ PrepareReset(FALSE, FALSE)
    \/ RegisterFinish
    \/ \E ch \in InputChars : DoChar(ch, FALSE, FALSE)
    \/ EndOfInput

Spec == Init /\ [][Next]_vars

\* the program driving the controller
NextHW ==
    \/ PrepareOpen
    \/ PrepareOpenFail
    \/ PreparePinSkip
    \/ PreparePin
    \/ PreparePinConfigFail
    \/ PreparePinSetFail
    \/ PrepareReset(TRUE, FALSE)
    \/ RegisterFinish
    \/ \E ch \in InputChars : DoChar(ch, TRUE, FALSE)
    \/ EndOfInput

SpecHW == InitHW /\ [][NextHW]_vars

\* every option and pin binding, on the default 2x20 geometry
InitOpt == InitWith({[lines |-> 2, cols |-> 20]}, Bools, {UnboundPin, 1}, {UnboundPin, 3})

SpecOpt == InitOpt /\ [][Next]_vars

\* the program on a GPIO device whose GPIOSET requests may fail
InitIO == InitWith({g \in SmallGeometries : g.lines = 2}, {1}, {UnboundPin}, {3})

NextIO ==
    \/ PrepareOpen
    \/ PrepareOpenFail
    \/ PreparePinSkip
    \/ PreparePin
    \/ PreparePinConfigFail
    \/ PreparePinSetFail
    \/ PrepareReset(FALSE, TRUE)
    \/ RegisterFinish
    \/ \E ch \in InputChars : DoChar(ch, FALSE, TRUE)
    \/ EndOfInput

SpecIO == InitIO /\ [][NextIO]_vars

\* every line count and every display flag, on the built-in pins
InitFlags == InitWith(SmallGeometries, Bools, {UnboundPin}, {3})

SpecFlags == InitFlags /\ [][Next]_vars

\* hd44780_command called with a code outside CMD_RESET..CMD_FLASH
UnknownCodes == {8, 65, 255}

UnknownCommand(cmd) ==
    /\ pc = "main"
    /\ Command(cmd, 0, FALSE, FALSE)
    /\ AfterOutput(pc)
    /\ UNCHANGED <<hd_fd, config, i, esc, handlers, lowered>>

NextCmd ==
    \/ PrepareOpen
    \/ PrepareOpenFail
    \/ PreparePinSkip
    \/ PreparePin
    \/ PreparePinConfigFail
    \/ PreparePinSetFail
    \/ PrepareReset(FALSE, FALSE)
    \/ RegisterFinish
    \/ \E ch \in InputChars : DoChar(ch, FALSE, FALSE)
    \/ \E cmd \in UnknownCodes : UnknownCommand(cmd)
    \/ EndOfInput

SpecCmd == InitHW /\ [][NextCmd]_vars

---------------------------------------------------------------------------
(* hd44780_calc_addr alone, over every valid geometry and cursor           *)

AllGeometries ==
    { g \in [lines : {1, 2, 4}, cols : 1..MaxCells] : g.lines * g.cols <= MaxCells }

InitAddr ==
    /\ pc = "calc"
    /\ hd_fd = 3
    /\ \E g \in AllGeometries : hd_lines = g.lines /\ hd_cols = g.cols
    /\ hd_row \in 0..(hd_lines - 1)
    /\ hd_col \in 0..hd_cols
    /\ hd_blink = 0
    /\ hd_cursor = 0
    /\ hd_font = 0
    /\ hd_bl_on = 0
    /\ pins = PinMap(UnboundPin, UnboundPin)
    /\ i = HD_PIN_COUNT
    /\ esc = 0
    /\ handlers = 1
    /\ finish_calls = 0
    /\ val = 0
    /\ ac = 0
    /\ writes = <<>>
    /\ ioctls = <<>>
    /\ last = NoStep
    /\ failed = 0
    /\ lowered = {p \in 0..(HD_PIN_COUNT - 1) : pins[p] # UnboundPin}
    /\ pre = [col |-> hd_col, row |-> hd_row]

CalcAddr ==
    /\ pc = "calc"
    /\ val' = hd44780_calc_addr(hd_row, hd_col)
    /\ pc' = "calced"
    /\ UNCHANGED <<hd_fd, config, hd_col, hd_row, i, esc, handlers, finish_calls,
                   ac, writes, ioctls, last, failed, lowered, pre>>

NextAddr == CalcAddr

SpecAddr == InitAddr /\ [][NextAddr]_vars

---------------------------------------------------------------------------
(* Properties *)

Ran(cmd) == last.kind = "command" /\ last.arg = cmd

Min(a, b) == IF a < b THEN a ELSE b

\* C1: TAB at column c writes exactly n = min(8 - c mod 8, column_count - c)
\* spaces as data bytes and leaves the tracked column at c + n, row unchanged.
C1_TabAdvancesColumn ==
    Ran(CMD_TAB) =>
        LET n == Min(8 - (pre.col % 8), hd_cols - pre.col)
        IN  /\ writes = [k \in 1..n |-> <<HD_DATA, 32>>]
            /\ hd_col = pre.col + n
            /\ hd_row = pre.row

\* C2: after initialization and after any sequence of commands the controller's
\* DDRAM address counter equals calc_addr(tracked row, tracked column).
C2_AddressCounterFollowsCursor ==
    pc \in {"atexit", "main", "exited"} /\ hd_fd # -1 /\ i = HD_PIN_COUNT
        => ac = hd44780_calc_addr(hd_row, hd_col)

\* C3: a put_char while the tracked column equals column_count issues no
\* hd44780_output call and no GPIO request, and leaves row and column as they
\* were (so the next put_char meets the same condition).
C3_PutcAtEdgeIsNoop ==
    (last.kind = "putc" /\ pre.col = hd_cols) =>
        /\ writes = <<>>
        /\ ioctls = <<>>
        /\ hd_col = pre.col
        /\ hd_row = pre.row
        /\ hd_col = hd_cols

C3_Witness == last.kind = "putc" /\ pre.col = hd_cols /\ hd_cols = 20

\* C4: NEWLINE on the last row keeps the row, sets the column to column_count
\* and issues exactly one command write of 0x80 | calc_addr(row, column_count)
\* (0x80 | 0x40 | 16 on a 2x16 display); a put_char in the resulting state is
\* dropped.
C4_NewlineOnLastRowParks ==
    (Ran(CMD_NL) /\ pre.row = hd_lines - 1) =>
        /\ hd_row = pre.row
        /\ hd_col = hd_cols
        /\ writes = << <<HD_COMMAND, BitOr(128, hd44780_calc_addr(pre.row, hd_cols))>> >>
        /\ Len(ioctls) = 14
        /\ (hd_lines = 2 /\ hd_cols = 16 => writes[1][2] = 128 + 64 + 16)
        /\ hd44780_putc(65).wr = <<>>
        /\ hd44780_putc(65).col = hd_col
        /\ hd44780_putc(65).row = hd_row

C4_Witness ==
    Ran(CMD_NL) /\ pre.row = 1 /\ hd_lines = 2 /\ hd_cols = 16 /\ pre.col = 3

\* C5: NEWLINE on a row r below the last row sets the row to r + 1 and the
\* column to 0, whatever the column was, and issues exactly one command write
\* (RS low) of 0x80 | calc_addr(r + 1, 0) (0x80 | 0x40 from row 0 of a 2x16).
C5_NewlineAdvancesRow ==
    (Ran(CMD_NL) /\ pre.row < hd_lines - 1) =>
        /\ hd_row = pre.row + 1
        /\ hd_col = 0
        /\ writes = << <<HD_COMMAND, BitOr(128, hd44780_calc_addr(pre.row + 1, 0))>> >>
        /\ Len(ioctls) = 14
        /\ ioctls[2] = <<"GPIOSET", pins[HD_PIN_RS], 0>>
        /\ (hd_lines = 2 /\ hd_cols = 16 => writes[1][2] = 128 + 64)

C5_Witness ==
    Ran(CMD_NL) /\ pre.row = 0 /\ hd_row = 1 /\ hd_lines = 2 /\ hd_cols = 16 /\ pre.col = 5

\* C6: BACKSPACE at column 0 issues the FLASH writes (off, on, off, on), never
\* cursor-left (0x10), and leaves row and column; BACKSPACE at a column above 0
\* issues exactly one cursor-left and decrements the column; the column is
\* never below 0.
C6_BackspaceFloor ==
    /\ hd_col >= 0
    /\ (Ran(CMD_BKSP) /\ pre.col = 0) =>
           /\ writes = << <<HD_COMMAND, 8>>, <<HD_COMMAND, 12 + 2 * hd_cursor + hd_blink>>,
                          <<HD_COMMAND, 8>>, <<HD_COMMAND, 12 + 2 * hd_cursor + hd_blink>> >>
           /\ \A k \in 1..Len(writes) : writes[k] # <<HD_COMMAND, 16>>
           /\ hd_col = pre.col
           /\ hd_row = pre.row
    /\ (Ran(CMD_BKSP) /\ pre.col > 0) =>
           /\ writes = << <<HD_COMMAND, 16>> >>
           /\ hd_col = pre.col - 1
           /\ hd_row = pre.row

C6_Witness == Ran(CMD_BKSP) /\ pre.col = 0 /\ pre.row = 1 /\ writes # <<>>

\* C7: from any cursor state CLEAR, HOME or RESET leaves the cursor at (0, 0);
\* the same command again yields the same cursor, and a put_char is accepted
\* afterwards.
C7_ClearHomeResetToOrigin ==
    (Ran(CMD_CLR) \/ Ran(CMD_HOME) \/ Ran(CMD_RESET)) =>
        /\ hd_col = 0
        /\ hd_row = 0
        /\ hd44780_command(last.arg).col = hd_col
        /\ hd44780_command(last.arg).row = hd_row
        /\ hd44780_putc(65).wr = << <<HD_DATA, 65>> >>
        /\ hd44780_putc(65).col = 1

C7_Witness == Ran(CMD_HOME) /\ pre.col = hd_cols /\ pre.row = 3

\* C8: for every valid geometry, row r below line_count and column c in
\* 0..column_count, calc_addr is c, c + 0x40, c + column_count and
\* c + 0x40 + column_count for rows 0, 1, 2 and 3, the 8-bit sum does not
\* wrap, and the result is below 0x80, so 0x80 | addr keeps the address bits.
C8_CalcAddr ==
    pc = "calced" =>
        LET e == hd_col + (IF hd_row = 1 \/ hd_row = 3 THEN 64 ELSE 0)
                        + (IF hd_row = 2 \/ hd_row = 3 THEN hd_cols ELSE 0)
        IN  /\ val = e
            /\ e < 128
            /\ BitOr(128, val) = 128 + val

C8_Witness == pc = "calced" /\ hd_row = 3 /\ hd_col = hd_cols /\ hd_cols = 20 /\ val = 104

\* C9: in every reachable state the tracked column is in 0..column_count and
\* the tracked row is in 0..line_count - 1.
C9_CursorInRange ==
    /\ hd_col \in 0..hd_cols
    /\ hd_row \in 0..(hd_lines - 1)

C9_Witness ==
    last.kind = "putc" /\ hd_col = hd_cols /\ hd_row = hd_lines - 1 /\ hd_lines = 4

\* C10: whenever the device was opened, hd44780_finish has run exactly once
\* by the time the process has ended, on the normal path and on the failure
\* paths of initialization after the open.
C10_FinishOnEveryExit ==
    (pc = "exited" /\ hd_fd # -1) => finish_calls = 1


IsSet(k) == ioctls[k][1] = "GPIOSET"

C12_UnboundPinNeverDriven ==
    \A k \in 1..Len(ioctls) : ioctls[k][2] # UnboundPin

\* C13: a command code outside CMD_RESET..CMD_FLASH issues no controller write
\* and no GPIO request, leaves row and column, and does not end the process.
C13_UnknownCommandIgnored ==
    (last.kind = "command" /\ last.arg \notin CMD_RESET..CMD_FLASH) =>
        /\ writes = <<>>
        /\ ioctls = <<>>
        /\ hd_col = pre.col
        /\ hd_row = pre.row
        /\ pc = "main"

C13_Witness ==
    last.kind = "command" /\ last.arg = 255 /\ pre.col = hd_cols /\ pre.row = 1


\* C14: each escape of the usage text triggers its command when do_char
\* receives it outside an ESC sequence: \b (8) BACKSPACE, \f (12) CLEAR,
\* \n (10) NEWLINE, \r (13) CARRIAGE_RETURN, \v (11) HOME, a backslash (92) is
\* displayed, and R after a backslash executes RESET.
C14_UsageEscapes ==
    [][ (pc = "main" /\ pc' = "main" /\ esc = 0) =>
            /\ (last'.ch = 8 => Ran(CMD_BKSP)')
            /\ (last'.ch = 12 => Ran(CMD_CLR)')
            /\ (last'.ch = 10 => Ran(CMD_NL)')
            /\ (last'.ch = 13 => Ran(CMD_CR)')
            /\ (last'.ch = 11 => Ran(CMD_HOME)')
            /\ (last'.ch = 92 => (last'.kind = "putc" /\ last'.arg = 92))
            /\ ((last.kind = "putc" /\ last.ch = 92 /\ last'.ch = 82) => Ran(CMD_RESET)')
      ]_vars


\* the requests of the step's j-th controller write start after position Base(j)
Base(j) == 14 * (j - 1)

High(k) == ioctls[k] = <<"GPIOSET", pins[HD_PIN_E], 1>>

Low(k) == ioctls[k] = <<"GPIOSET", pins[HD_PIN_E], 0>>

\* request k drives data line n, high exactly when bit b of byte d is set
DataLine(k, n, d, b) ==
    /\ ioctls[k][1] = "GPIOSET"
    /\ ioctls[k][2] = pins[HD_PIN_DAT0 + n]
    /\ (ioctls[k][3] # 0) <=> ((d \div (2 ^ b)) % 2 = 1)

\* C15: every controller write sets R/W low, then RS (low for a command, high
\* for data), then DAT0..DAT3 from bits 4..7, strobes (E high, E low), sets
\* DAT0..DAT3 from bits 0..3 and strobes again; nothing else is requested, so
\* each byte has exactly two strobes and E goes low right after it went high.
C15_WriteSequence ==
    /\ Len(ioctls) >= 14 * Len(writes)
    /\ \A j \in 1..Len(writes) :
           /\ ioctls[Base(j) + 1] = <<"GPIOSET", pins[HD_PIN_RW], 0>>
           /\ ioctls[Base(j) + 2] =
                  <<"GPIOSET", pins[HD_PIN_RS], IF writes[j][1] = HD_DATA THEN 1 ELSE 0>>
           /\ \A n \in 0..3 : DataLine(Base(j) + 3 + n, n, writes[j][2], 4 + n)
           /\ High(Base(j) + 7)
           /\ Low(Base(j) + 8)
           /\ \A n \in 0..3 : DataLine(Base(j) + 9 + n, n, writes[j][2], n)
           /\ High(Base(j) + 13)
           /\ Low(Base(j) + 14)
    /\ Cardinality({k \in 1..Len(ioctls) : High(k)}) = 2 * Len(writes)
    /\ \A k \in 1..Len(ioctls) : High(k) => (k < Len(ioctls) /\ Low(k + 1))

C15_Witness ==
    last.kind = "putc" /\ writes = << <<HD_DATA, 65>> >> /\ pins[HD_PIN_RW] = 1

\* C16: every set operation passes a level that is exactly 0 or exactly 1.
C16_BooleanLevels ==
    \A k \in 1..Len(ioctls) : IsSet(k) => ioctls[k][3] \in {0, 1}


\* C17: RESET issues exactly seven command writes (RS low): the function set
\* F three times, F = 0x20 with 0x10 clear, 0x08 set iff line_count # 1 and
\* 0x04 set iff large font; display off (0x08); display on 0x0C with 0x02 iff
\* cursor and 0x01 iff blink; entry mode 0x06; clear 0x01.  No data write;
\* the cursor ends at (0, 0).
C17_ResetSequence ==
    Ran(CMD_RESET) =>
        LET F == 32 + (IF hd_lines # 1 THEN 8 ELSE 0) + (IF hd_font # 0 THEN 4 ELSE 0)
            D == 12 + (IF hd_cursor # 0 THEN 2 ELSE 0) + (IF hd_blink # 0 THEN 1 ELSE 0)
        IN  /\ writes = << <<HD_COMMAND, F>>, <<HD_COMMAND, F>>, <<HD_COMMAND, F>>,
                           <<HD_COMMAND, 8>>, <<HD_COMMAND, D>>,
                           <<HD_COMMAND, 6>>, <<HD_COMMAND, 1>> >>
            /\ \A j \in 1..7 : ioctls[Base(j) + 2] = <<"GPIOSET", pins[HD_PIN_RS], 0>>
            /\ hd_col = 0
            /\ hd_row = 0

C17_Witness ==
    /\ Ran(CMD_RESET) /\ last.ch = 82 /\ pre.col > 0 /\ pre.row = 3
    /\ hd_font = 1 /\ hd_cursor = 1 /\ hd_blink = 0


\* C18: during hd44780_prepare every bound pin is configured as output and
\* then driven low, and an unbound pin is skipped, before the first request
\* that raises E; the first byte written is the function set of RESET; the
\* backlight pin is driven high only after the seven writes of RESET and only
\* if the backlight default is on; the cursor is (0, 0) when prepare returns.
C18_InitializeOrder ==
    handlers = 0 =>
        /\ (last.kind = "pin" /\ failed = 0) =>
               IF pins[last.arg] # UnboundPin
               THEN /\ ioctls = << GpioSetConfig(pins[last.arg]),
                                   <<"GPIOSET", pins[last.arg], 0>> >>
                    /\ last.arg \in lowered
               ELSE ioctls = <<>> /\ last.arg \notin lowered
        /\ (\E k \in 1..Len(ioctls) : High(k)) =>
               lowered = { p \in 0..(HD_PIN_COUNT - 1) : pins[p] # UnboundPin }
        /\ pc \in {"start", "prepare"} => writes = <<>>
        /\ pc = "atexit" =>
               /\ Len(writes) = 7
               /\ writes[1] = <<HD_COMMAND, 32 + (IF hd_lines # 1 THEN 8 ELSE 0)
                                               + (IF hd_font # 0 THEN 4 ELSE 0)>>
               /\ hd_col = 0
               /\ hd_row = 0
        /\ \A k \in 1..Len(ioctls) :
               ( /\ pins[HD_PIN_BL] # UnboundPin
                 /\ IsSet(k)
                 /\ ioctls[k][2] = pins[HD_PIN_BL]
                 /\ ioctls[k][3] # 0 ) =>
                   /\ pc = "atexit"
                   /\ k = Base(8) + 1
                   /\ k = Len(ioctls)
                   /\ hd_bl_on # 0

C18_Witness ==
    /\ pc = "atexit" /\ handlers = 0
    /\ pins[HD_PIN_RW] = 1 /\ pins[HD_PIN_BL] = 3 /\ hd_bl_on = 1
    /\ Len(ioctls) = Base(8) + 1
    /\ ioctls[Base(8) + 1] = <<"GPIOSET", 3, 1>>
    /\ lowered = {HD_PIN_DAT0, HD_PIN_DAT0 + 1, HD_PIN_DAT0 + 2, HD_PIN_DAT0 + 3,
                  HD_PIN_RS, HD_PIN_RW, HD_PIN_E, HD_PIN_BL}


\* write j of the step is a display-control instruction (0x08..0x0F)
IsDispCtrl(j) == writes[j][1] = HD_COMMAND /\ writes[j][2] \in 8..15

\* C19: FLASH issues exactly four command writes, off (0x08), on, off (0x08),
\* on, where on is 0x0C plus 0x02 if the cursor is configured and 0x01 if blink
\* is; no data write; row and column unchanged.  Initialization sends a
\* display-control instruction, and in every step that sends any the last one
\* has the display-on bit (0x04) set, so the most recent one sent is always on.
C19_FlashLeavesDisplayOn ==
    LET on == 12 + (IF hd_cursor # 0 THEN 2 ELSE 0) + (IF hd_blink # 0 THEN 1 ELSE 0)
        sent == { j \in 1..Len(writes) : IsDispCtrl(j) }
    IN  /\ Ran(CMD_FLASH) =>
               /\ writes = << <<HD_COMMAND, 8>>, <<HD_COMMAND, on>>,
                              <<HD_COMMAND, 8>>, <<HD_COMMAND, on>> >>
               /\ hd_col = pre.col
               /\ hd_row = pre.row
        /\ pc = "atexit" => sent # {}
        /\ \A j \in sent :
               (\A k \in sent : k <= j) => (writes[j][2] \div 4) % 2 = 1

C19_Witness ==
    /\ Ran(CMD_FLASH) /\ last.ch = 7 /\ pc = "main"
    /\ hd_cursor = 1 /\ hd_blink = 1
    /\ pre.col = 5 /\ pre.row = 1
    /\ Len(writes) = 4 /\ writes[4] = <<HD_COMMAND, 15>>


\* C20: every data byte written, by hd44780_putc or by TAB, lands under the
\* auto-incrementing address counter at calc_addr(r, c) of a visible cell of
\* the tracked row r: 0 <= c < column_count.  The data writes of a step are
\* its last n writes, so byte j of them lands at the counter's value less
\* n - j + 1.
C20_DataLandsOnScreen ==
    LET data == { j \in 1..Len(writes) : writes[j][1] = HD_DATA }
        n == Cardinality(data)
    IN  /\ \A j \in data : j > Len(writes) - n
        /\ \A j \in 1..n :
               \E c \in 0..(hd_cols - 1) :
                   (ac + 128 - n + j - 1) % 128 = hd44780_calc_addr(pre.row, c)

=============================================================================
